---- MODULE Spec2Model ----
(***************************************************************************)
(* sector-base: the disk backed sector store (api/disk_backed_storage.rs), *)
(* its three configurations and its manager of sector access files, with   *)
(* the Fr32 padding codec (storage_proofs::io::fr32) the manager calls.    *)
(*                                                                         *)
(* A file is the sequence of its bytes (0..255). Bits are counted the way  *)
(* the codec's BitVec<LittleEndian, u8> counts them: bit k of a byte is    *)
(* (byte \div 2^k) % 2.                                                    *)
(***************************************************************************)
EXTENDS Integers, Sequences, FiniteSets, TLC

\* ------------------------------------------------------------------ bounds
\* Calls of the allocator, write_unsealed and truncate_unsealed in one behaviour.
MaxOps == 4
\* Unpadded lengths probed in the codec specification, and the gap of a pair.
MaxProbe == 140
MaxGap == 2
\* Payloads (a value, or the text of an error) of the results put through the
\* status mapping.
MaxPayload == 2

\* Inputs of the manager specification.
RandNames == {"a", "b"}
WriteLens == {0, 1, 32, 128}
TruncSizes == {1, 31, 32, 33}
\* Inputs of the specifications of the failing file system and of the stores.
FewLens == {1, 32}
FewSizes == {1}
DataSeeds == {2}

\* ------------------------------------------------------- program constants
REAL_SECTOR_SIZE == 128
FAST_SECTOR_SIZE == 1024
SLOW_SECTOR_SIZE == 2^30
FAST_DELAY_SECONDS == 10
SLOW_DELAY_SECONDS == 4 * 60 * 60

\* ------------------------------------------------------------ Fr32 codec
\* FR32_PADDING_MAP: 254 data bits are stored in an element of 256 bits.
FR_UNPADDED_BITS == 254
FR_PADDED_BITS == 256

\* PaddingMap::transform_bit_pos: div_rem(p, from_size), then
\* full_elements * to_size + incomplete.
transform_bit_pos(p, from_size, to_size) ==
    ((p \div from_size) * to_size) + (p % from_size)

expand_bits(size) == transform_bit_pos(size, FR_UNPADDED_BITS, FR_PADDED_BITS)

contract_bits(size) == transform_bit_pos(size, FR_PADDED_BITS, FR_UNPADDED_BITS)

\* transform_byte_pos that rounds up in both directions.
transform_byte_pos_rounding_up(p, from_size, to_size) ==
    LET low == 8 * (p % from_size)
        full == (8 * (p \div from_size)) + (low \div from_size)
        incomplete == low % from_size
        rest == (to_size * (full % 8)) + incomplete
    IN  (to_size * (full \div 8)) + ((rest + 7) \div 8)

\* PaddingMap::transform_byte_pos: transform_bit_pos(p * 8, from, to) / 8,
\* rounded up when expanding and down when contracting. The code computes in
\* usize (64 bits) where p * 8 and full_elements * to_size fit for every
\* sector size; here the same quotient is taken without forming either
\* product, which would leave the range of the checker's integers:
\*   div_rem(8p, F) = (8 (p div F) + (8 (p mod F)) div F, (8 (p mod F)) mod F)
\*   (q T + r) div 8 = T (q div 8) + (T (q mod 8) + r) div 8
transform_byte_pos(p, from_size, to_size) ==
    LET low == 8 * (p % from_size)
        full == (8 * (p \div from_size)) + (low \div from_size)
        incomplete == low % from_size
        rest == (to_size * (full % 8)) + incomplete
    IN  IF from_size < to_size
        THEN (to_size * (full \div 8)) + ((rest + 7) \div 8)
        ELSE (to_size * (full \div 8)) + (rest \div 8)

expand_bytes(bytes) == transform_byte_pos(bytes, FR_UNPADDED_BITS, FR_PADDED_BITS)

contract_bytes(bytes) == transform_byte_pos(bytes, FR_PADDED_BITS, FR_UNPADDED_BITS)

\* fr32::unpadded_bytes and fr32::padded_bytes.
unpadded_bytes(padded) == contract_bytes(padded)

padded_bytes(unpadded) == expand_bytes(unpadded)

\* BitByte::bytes_needed of BitByte::from_bits(bits).
bytes_needed(bits) == (bits + 7) \div 8

\* io::Result of a codec or file system call.
IoOk(v) == [ok |-> TRUE, val |-> v]

IoErr == [ok |-> FALSE, val |-> 0]

Bit(byte, k) == (byte \div (2^k)) % 2

Zeros(n) == [i \in 1..n |-> 0]

\* Bit p (from 0) of a file's bit stream; 0 past its end.
FileBit(file, p) ==
    IF p \div 8 < Len(file) THEN Bit(file[(p \div 8) + 1], p % 8) ELSE 0

\* fr32::target_unpadded_bytes: seeks to the end of the target and contracts
\* the padded length; fails when the seek fails.
target_unpadded_bytes(file, fault) ==
    IF fault = "codec" THEN IoErr ELSE IoOk(contract_bytes(Len(file)))

\* fr32::almost_truncate_to_unpadded_bytes: the padded length that holds
\* `length` unpadded bytes. It leaves the target as it is: the trailing byte
\* is not rewritten.
almost_truncate_to_unpadded_bytes(file, length, fault) ==
    IF fault = "codec" THEN IoErr ELSE IoOk(bytes_needed(expand_bits(length * 8)))

\* fr32::write_padded: the target holds contract_bytes(len) unpadded bytes,
\* that is `offset` padded bits. The bits of `source` follow them, two zero
\* bits closing every element of 254 data bits; the bytes from the one
\* holding bit `offset` on are written over the target. Returns the number
\* of source bytes. It may fail before it writes (fault "codec") or while it
\* writes (fault "write"), and what it wrote by then stays in the target.
\* Byte j (from 0) of the padded stream lies in element j div 32 and holds the
\* 8 data bits (6 in the element's last byte) from data bit
\* 254 (j div 32) + 8 (j mod 32) on.
write_padded(source, file, fault) ==
    LET held == contract_bytes(Len(file))
        offset == expand_bits(held * 8)
        first == offset \div 8
        kept == 2^(offset % 8)
        last_byte == bytes_needed(expand_bits((held + Len(source)) * 8))
        newlen == IF last_byte > Len(file) THEN last_byte ELSE Len(file)
        SourceByte(i) ==
            IF i >= held /\ i < held + Len(source) THEN source[(i - held) + 1] ELSE 0
        OutByte(j) ==
            LET e == j \div 32
                m == j % 32
                sh == (6 * e) % 8
                base == (31 * e) + m + ((6 * e) \div 8)
                bits == (SourceByte(base) \div (2^sh))
                        + (SourceByte(base + 1) * (2^(8 - sh)))
                new == IF m = 31 THEN bits % 64 ELSE bits % 256
            IN  IF j = first /\ kept > 1
                THEN (file[j + 1] % kept) + ((new \div kept) * kept)
                ELSE new
        \* A write that fails on the way has put the first half of the bytes.
        half == (last_byte - first) \div 2
        partlen == IF first + half > Len(file) THEN first + half ELSE Len(file)
    IN  IF fault = "codec" THEN [ok |-> FALSE, val |-> 0, file |-> file]
        ELSE IF fault = "write"
        THEN [ok |-> FALSE, val |-> 0,
              file |-> [j \in 1..partlen |->
                          IF j > first /\ j <= first + half
                          THEN OutByte(j - 1) ELSE file[j]]]
        ELSE [ok |-> TRUE, val |-> Len(source),
              file |-> [j \in 1..newlen |->
                          IF j > first /\ j <= last_byte
                          THEN OutByte(j - 1) ELSE file[j]]]

\* The unpadded bytes a padded file holds (fr32::write_unpadded over the
\* whole file): data bit d is padded bit expand_bits(d).
UnpaddedContent(file, n) ==
    [i \in 1..n |->
        LET D(k) == FileBit(file, expand_bits((8 * (i - 1)) + k))
        IN  D(0) + (2 * D(1)) + (4 * D(2)) + (8 * D(3)) + (16 * D(4))
            + (32 * D(5)) + (64 * D(6)) + (128 * D(7))]

\* std::fs::File::set_len: cuts the file, or extends it with zero bytes.
set_len(file, size, fault) ==
    IF fault = "set_len" THEN [ok |-> FALSE, file |-> file]
    ELSE [ok |-> TRUE,
          file |-> IF size <= Len(file) THEN SubSeq(file, 1, size)
                   ELSE file \o Zeros(size - Len(file))]

\* ---------------------------------------------------------- configuration
RealConfig(sector_bytes) ==
    [kind |-> "RealConfig", sector_bytes |-> sector_bytes]

FakeConfig(sector_bytes, delay_seconds) ==
    [kind |-> "FakeConfig", sector_bytes |-> sector_bytes,
     delay_seconds |-> delay_seconds]

\* Option<u32>: <<>> is None, <<n>> is Some(n).
None == <<>>

Some(n) == <<n>>

is_fake(config) == config.kind = "FakeConfig"

simulate_delay_seconds(config) ==
    IF config.kind = "RealConfig" THEN None ELSE Some(config.delay_seconds)

\* max_unsealed_bytes_per_sector that takes the padded capacity for the unpadded one.
max_unsealed_bytes_per_sector_padded(config) == config.sector_bytes

max_unsealed_bytes_per_sector(config) == unpadded_bytes(config.sector_bytes)

sector_bytes(config) == config.sector_bytes

DiskManager(sealed_path, staging_path) ==
    [sealed_path |-> sealed_path, staging_path |-> staging_path]

new_real_sector_store(sealed_path, staging_path) ==
    [config |-> RealConfig(REAL_SECTOR_SIZE),
     manager |-> DiskManager(sealed_path, staging_path)]

new_fake_sector_store(sealed_path, staging_path, bytes, delay_seconds) ==
    [config |-> FakeConfig(bytes, delay_seconds),
     manager |-> DiskManager(sealed_path, staging_path)]

new_slow_fake_sector_store(sealed_path, staging_path) ==
    new_fake_sector_store(sealed_path, staging_path,
                          SLOW_SECTOR_SIZE, SLOW_DELAY_SECONDS)

new_fast_fake_sector_store(sealed_path, staging_path) ==
    new_fake_sector_store(sealed_path, staging_path,
                          FAST_SECTOR_SIZE, FAST_DELAY_SECONDS)

ConfiguredStore == {"Live", "Test", "ProofTest"}

new_sector_store(cs, sealed_path, staging_path) ==
    CASE cs = "Live" -> new_slow_fake_sector_store(sealed_path, staging_path)
      [] cs = "Test" -> new_fast_fake_sector_store(sealed_path, staging_path)
      [] cs = "ProofTest" -> new_real_sector_store(sealed_path, staging_path)

\* The three construction entry points; each passes the sealed directory
\* first.
init_new_proof_test_sector_store(staging_dir_path, sealed_dir_path) ==
    new_sector_store("ProofTest", sealed_dir_path, staging_dir_path)

init_new_test_sector_store(staging_dir_path, sealed_dir_path) ==
    new_sector_store("Test", sealed_dir_path, staging_dir_path)

init_new_sector_store(staging_dir_path, sealed_dir_path) ==
    new_sector_store("Live", sealed_dir_path, staging_dir_path)

\* ------------------------------------------------------------ the results
\* Result<T, SectorManagerErr>; the message of an error is not modelled.
Ok(v) == [kind |-> "Ok", val |-> v]

UnclassifiedError == [kind |-> "UnclassifiedError", val |-> 0]

CallerError == [kind |-> "CallerError", val |-> 0]

ReceiverError == [kind |-> "ReceiverError", val |-> 0]

\* ------------------------------------------------------ boundary status
\* SBResponseStatus, as its u8 representation.
SBNoError == 0

SBUnclassifiedError == 1

SBCallerError == 2

SBReceiverError == 3

SBResponseStatus == {SBNoError, SBUnclassifiedError, SBCallerError, SBReceiverError}

\* to_response_status that reports a receiver error as the caller's.
to_response_status_blaming_caller(result) ==
    IF result.kind = "Ok" THEN SBNoError
    ELSE CASE result.kind = "UnclassifiedError" -> SBUnclassifiedError
           [] result.kind = "CallerError" -> SBCallerError
           [] result.kind = "ReceiverError" -> SBCallerError

\* ToResponseStatus for Result<T, SectorManagerErr>: the two matches.
to_response_status(result) ==
    IF result.kind = "Ok" THEN SBNoError
    ELSE CASE result.kind = "UnclassifiedError" -> SBUnclassifiedError
           [] result.kind = "CallerError" -> SBCallerError
           [] result.kind = "ReceiverError" -> SBReceiverError

\* ----------------------------------------------------------- the manager
\* OpenOptions::open: the file must exist, and the open may fail for a reason
\* of the file system's own.
open(files, access, fault) == access \in DOMAIN files /\ fault # "open"

\* num_unsealed_bytes that reports the length of the file as it is on disk.
num_unsealed_bytes_padded_length(files, access, fault) ==
    IF ~open(files, access, fault) THEN CallerError
    ELSE IF fault = "codec" THEN ReceiverError ELSE Ok(Len(files[access]))

num_unsealed_bytes(files, access, fault) ==
    IF ~open(files, access, fault) THEN CallerError
    ELSE LET n == target_unpadded_bytes(files[access], fault)
         IN  IF n.ok THEN Ok(n.val) ELSE ReceiverError

\* truncate_unsealed that sets the length to the unpadded size it was given.
truncate_unsealed_to_unpadded_size(files, access, size, fault) ==
    IF ~open(files, access, fault) THEN [res |-> CallerError, files |-> files]
    ELSE LET file == files[access]
             padded_size == almost_truncate_to_unpadded_bytes(file, size, fault)
         IN  IF ~padded_size.ok THEN [res |-> ReceiverError, files |-> files]
             ELSE LET cut == set_len(file, size, fault)
                  IN  IF cut.ok
                      THEN [res |-> Ok(0),
                            files |-> [files EXCEPT ![access] = cut.file]]
                      ELSE [res |-> ReceiverError, files |-> files]

\* truncate_unsealed that blames the caller when the length cannot be set.
truncate_unsealed_blaming_caller(files, access, size, fault) ==
    IF ~open(files, access, fault) THEN [res |-> CallerError, files |-> files]
    ELSE LET file == files[access]
             padded_size == almost_truncate_to_unpadded_bytes(file, size, fault)
         IN  IF ~padded_size.ok THEN [res |-> ReceiverError, files |-> files]
             ELSE LET cut == set_len(file, padded_size.val, fault)
                  IN  IF cut.ok
                      THEN [res |-> Ok(0),
                            files |-> [files EXCEPT ![access] = cut.file]]
                      ELSE [res |-> CallerError, files |-> files]

\* truncate_unsealed that empties the file before it sets the length.
truncate_unsealed_rewriting(files, access, size, fault) ==
    IF ~open(files, access, fault) THEN [res |-> CallerError, files |-> files]
    ELSE LET file == files[access]
             padded_size == almost_truncate_to_unpadded_bytes(file, size, fault)
         IN  IF ~padded_size.ok THEN [res |-> ReceiverError, files |-> files]
             ELSE LET cut == set_len(<<>>, padded_size.val, fault)
                  IN  IF cut.ok
                      THEN [res |-> Ok(0),
                            files |-> [files EXCEPT ![access] = cut.file]]
                      ELSE [res |-> ReceiverError, files |-> files]

\* truncate_unsealed that sets the length only when that cuts the file.
truncate_unsealed_cutting_only(files, access, size, fault) ==
    IF ~open(files, access, fault) THEN [res |-> CallerError, files |-> files]
    ELSE LET file == files[access]
             padded_size == almost_truncate_to_unpadded_bytes(file, size, fault)
         IN  IF ~padded_size.ok THEN [res |-> ReceiverError, files |-> files]
             ELSE IF padded_size.val >= Len(file)
             THEN [res |-> (IF fault = "set_len" THEN ReceiverError ELSE Ok(0)),
                   files |-> files]
             ELSE LET cut == set_len(file, padded_size.val, fault)
                  IN  IF cut.ok
                      THEN [res |-> Ok(0),
                            files |-> [files EXCEPT ![access] = cut.file]]
                      ELSE [res |-> ReceiverError, files |-> files]

\* truncate_unsealed that opens the file with truncate(true): the file is
\* emptied by the open.
truncate_unsealed_open_truncating(files, access, size, fault) ==
    IF ~open(files, access, fault) THEN [res |-> CallerError, files |-> files]
    ELSE LET file == <<>>
             emptied == [files EXCEPT ![access] = file]
             padded_size == almost_truncate_to_unpadded_bytes(file, size, fault)
         IN  IF ~padded_size.ok THEN [res |-> ReceiverError, files |-> emptied]
             ELSE LET cut == set_len(file, padded_size.val, fault)
                  IN  IF cut.ok
                      THEN [res |-> Ok(0),
                            files |-> [files EXCEPT ![access] = cut.file]]
                      ELSE [res |-> ReceiverError, files |-> emptied]

\* The result and the files after the call.
truncate_unsealed(files, access, size, fault) ==
    IF ~open(files, access, fault) THEN [res |-> CallerError, files |-> files]
    ELSE LET file == files[access]
             padded_size == almost_truncate_to_unpadded_bytes(file, size, fault)
         IN  IF ~padded_size.ok THEN [res |-> ReceiverError, files |-> files]
             ELSE LET cut == set_len(file, padded_size.val, fault)
                  IN  IF cut.ok
                      THEN [res |-> Ok(0),
                            files |-> [files EXCEPT ![access] = cut.file]]
                      ELSE [res |-> ReceiverError, files |-> files]

\* write_unsealed that returns the number of bytes the file grew by.
write_unsealed_padded_count(files, access, data, fault) ==
    IF ~open(files, access, fault) THEN [res |-> CallerError, files |-> files]
    ELSE LET n == write_padded(data, files[access], fault)
         IN  IF n.ok
             THEN [res |-> Ok(Len(n.file) - Len(files[access])),
                   files |-> [files EXCEPT ![access] = n.file]]
             ELSE [res |-> ReceiverError,
                   files |-> [files EXCEPT ![access] = n.file]]

\* write_unsealed that appends the data as it is, without the codec.
write_unsealed_raw(files, access, data, fault) ==
    IF ~open(files, access, fault) THEN [res |-> CallerError, files |-> files]
    ELSE IF fault = "codec" THEN [res |-> ReceiverError, files |-> files]
    ELSE [res |-> Ok(Len(data)),
          files |-> [files EXCEPT ![access] = @ \o data]]

\* write_unsealed that pads the data as if it began a file and puts the
\* padded bytes after the last byte of the file.
write_unsealed_padding_afresh(files, access, data, fault) ==
    IF ~open(files, access, fault) THEN [res |-> CallerError, files |-> files]
    ELSE LET n == write_padded(data, <<>>, fault)
         IN  IF n.ok
             THEN [res |-> Ok(n.val),
                   files |-> [files EXCEPT ![access] = @ \o n.file]]
             ELSE [res |-> ReceiverError, files |-> files]

write_unsealed(files, access, data, fault) ==
    IF ~open(files, access, fault) THEN [res |-> CallerError, files |-> files]
    ELSE LET n == write_padded(data, files[access], fault)
         IN  IF n.ok
             THEN [res |-> Ok(n.val),
                   files |-> [files EXCEPT ![access] = n.file]]
             ELSE [res |-> ReceiverError,
                   files |-> [files EXCEPT ![access] = n.file]]

\* root.join(name): the access handle is the path as text.
join(root, name) == <<root, name>>

\* Path::to_str: a root that came from a String joined with an alphanumeric
\* name is always valid text.
to_str(pbuf) == IoOk(pbuf)

\* new_sector_access that makes the root anew: the files that were under it
\* are gone.
new_sector_access_clearing_root(files, root, name, fault) ==
    LET pbuf == join(root, name)
    IN  IF fault = "create_dir_all"
        THEN [res |-> ReceiverError, files |-> files]
        ELSE IF fault = "create"
        THEN [res |-> ReceiverError, files |-> files]
        ELSE [res |-> Ok(pbuf),
              files |-> [a \in {b \in DOMAIN files : b[1] # root} \cup {pbuf} |->
                           IF a = pbuf THEN <<>> ELSE files[a]]]

\* util::rand_alpha_string(32) has drawn `name`. File::create makes the file,
\* or empties the one that is there.
new_sector_access(files, root, name, fault) ==
    LET pbuf == join(root, name)
    IN  IF fault = "create_dir_all"
        THEN [res |-> ReceiverError, files |-> files]
        ELSE IF fault = "create"
        THEN [res |-> ReceiverError, files |-> files]
        ELSE LET made == [a \in DOMAIN files \cup {pbuf} |->
                            IF a = pbuf THEN <<>> ELSE files[a]]
                 text == to_str(pbuf)
             IN  IF text.ok THEN [res |-> Ok(text.val), files |-> made]
                 ELSE [res |-> ReceiverError, files |-> made]

new_sealed_sector_access(files, manager, name, fault) ==
    new_sector_access(files, manager.sealed_path, name, fault)

new_staging_sector_access(files, manager, name, fault) ==
    new_sector_access(files, manager.staging_path, name, fault)

\* ------------------------------------------------------------------ state
\* store   the sector store (config, manager)
\* fs      the file system: access path -> bytes of the file, for each file
\* log     per file, the successful writes and truncations since its creation
\* issued  the access handles the allocator has returned
\* last    the last call: its arguments, what the file system answered, its result
\* nops    calls of the allocator, write_unsealed and truncate_unsealed so far
\* probe   the last pair of lengths put through padded_bytes / unpadded_bytes
\* mapped  the last pair of results put through to_response_status
VARIABLES store, fs, log, issued, last, nops, probe, mapped

vars == <<store, fs, log, issued, last, nops, probe, mapped>>

STAGING == "staging"

SEALED == "sealed"

\* A handle that names no file: the empty path.
NoSuchAccess == join("", "")


\* The data of a write: n bytes that differ from one to the next, from `seed` on.
DataOf(n, seed) == [i \in 1..n |-> (seed + (37 * (i - 1))) % 256]

NoCall ==
    [op |-> "none", access |-> <<>>, arg |-> 0, seed |-> 0, fault |-> "none",
     res |-> Ok(0), exists |-> FALSE, lenBefore |-> 0, fresh |-> FALSE]

NoProbe == [u1 |-> 0, u2 |-> 0, done |-> FALSE, p1 |-> 0, p2 |-> 0, back |-> 0]

NoMapped == [r1 |-> Ok(0), r2 |-> Ok(0), done |-> FALSE, s1 |-> 0, s2 |-> 0]

LenOf(files, access) == IF access \in DOMAIN files THEN Len(files[access]) ELSE 0

Call(op, access, arg, seed, fault, res) ==
    [op |-> op, access |-> access, arg |-> arg, seed |-> seed, fault |-> fault,
     res |-> res, exists |-> access \in DOMAIN fs, lenBefore |-> LenOf(fs, access),
     fresh |-> access \notin issued]

\* The store of the tests: init_new_proof_test_sector_store over two empty
\* directories.
Init ==
    /\ store = init_new_proof_test_sector_store(STAGING, SEALED)
    /\ fs = [a \in {} |-> <<>>]
    /\ log = [a \in {} |-> <<>>]
    /\ issued = {}
    /\ last = NoCall
    /\ nops = 0
    /\ probe = NoProbe
    /\ mapped = NoMapped

\* What the file system may fail in a call: nothing; or the open, the codec's
\* step (before it writes, or while it writes), the length set; or the making
\* of the directory or of the file.
NoFault == {"none"}

AccessFaults == {"none", "open", "codec"}

WriteFaults == {"none", "open", "codec", "write"}

TruncateFaults == {"none", "open", "codec", "set_len"}

CreateFaults == {"none", "create_dir_all", "create"}

\* A call of the allocator that returned r.
Allocated(op, root, name, fault, r) ==
    /\ nops < MaxOps
    /\ fs' = r.files
    /\ log' = IF r.res.kind = "Ok"
              THEN [a \in DOMAIN r.files |->
                      IF a = r.res.val THEN <<>> ELSE log[a]]
              ELSE log
    /\ issued' = IF r.res.kind = "Ok" THEN issued \cup {r.res.val} ELSE issued
    /\ last' = Call(op, join(root, name), 0, 0, fault, r.res)
    /\ nops' = nops + 1
    /\ UNCHANGED <<store, probe, mapped>>

NewSealedSectorAccessWith(faults) ==
    \E name \in RandNames, fault \in faults :
        Allocated("new_sealed_sector_access", store.manager.sealed_path, name, fault,
                  new_sealed_sector_access(fs, store.manager, name, fault))

NewStagingSectorAccessWith(faults) ==
    \E name \in RandNames, fault \in faults :
        Allocated("new_staging_sector_access", store.manager.staging_path, name, fault,
                  new_staging_sector_access(fs, store.manager, name, fault))

NumUnsealedBytesWith(handles, faults) ==
    \E access \in handles, fault \in faults :
        /\ last' = Call("num_unsealed_bytes", access, 0, 0, fault,
                        num_unsealed_bytes(fs, access, fault))
        /\ UNCHANGED <<store, fs, log, issued, nops, probe, mapped>>

WriteUnsealedWith(handles, lens, seeds, faults) ==
    \E access \in handles, n \in lens, seed \in seeds, fault \in faults :
        LET r == write_unsealed(fs, access, DataOf(n, seed), fault)
        IN  /\ nops < MaxOps
            /\ fs' = r.files
            /\ log' = IF r.res.kind = "Ok"
                      THEN [log EXCEPT ![access] =
                              Append(@, [op |-> "write", n |-> n, seed |-> seed])]
                      ELSE log
            /\ last' = Call("write_unsealed", access, n, seed, fault, r.res)
            /\ nops' = nops + 1
            /\ UNCHANGED <<store, issued, probe, mapped>>

TruncateUnsealedWith(handles, sizes, faults) ==
    \E access \in handles, size \in sizes, fault \in faults :
        LET r == truncate_unsealed(fs, access, size, fault)
        IN  /\ nops < MaxOps
            /\ fs' = r.files
            /\ log' = IF r.res.kind = "Ok"
                      THEN [log EXCEPT ![access] =
                              Append(@, [op |-> "truncate", n |-> size, seed |-> 0])]
                      ELSE log
            /\ last' = Call("truncate_unsealed", access, size, 0, fault, r.res)
            /\ nops' = nops + 1
            /\ UNCHANGED <<store, issued, probe, mapped>>

\* The manager over a file system that fails nothing, called with the handles
\* it returned.
NewSealedSectorAccess == NewSealedSectorAccessWith(NoFault)

NewStagingSectorAccess == NewStagingSectorAccessWith(NoFault)

NumUnsealedBytes == NumUnsealedBytesWith(DOMAIN fs, NoFault)

WriteUnsealed == WriteUnsealedWith(DOMAIN fs, WriteLens, DataSeeds, NoFault)

TruncateUnsealed == TruncateUnsealedWith(DOMAIN fs, TruncSizes, NoFault)

Next ==
    \/ NewSealedSectorAccess
    \/ NewStagingSectorAccess
    \/ NumUnsealedBytes
    \/ WriteUnsealed
    \/ TruncateUnsealed

Spec == Init /\ [][Next]_vars

\* The manager over a file system that may fail any step of a call, called
\* with its handles and with one that names no file.
NewSealedSectorAccessF == NewSealedSectorAccessWith(CreateFaults)

NewStagingSectorAccessF == NewStagingSectorAccessWith(CreateFaults)

NumUnsealedBytesF ==
    NumUnsealedBytesWith(DOMAIN fs \cup {NoSuchAccess}, AccessFaults)

WriteUnsealedF ==
    WriteUnsealedWith(DOMAIN fs \cup {NoSuchAccess}, FewLens, DataSeeds, WriteFaults)

TruncateUnsealedF ==
    TruncateUnsealedWith(DOMAIN fs \cup {NoSuchAccess}, FewSizes, TruncateFaults)

NextFaults ==
    \/ NewSealedSectorAccessF
    \/ NewStagingSectorAccessF
    \/ NumUnsealedBytesF
    \/ WriteUnsealedF
    \/ TruncateUnsealedF

SpecFaults == Init /\ [][NextFaults]_vars

\* ------------------------------------------------------------- the stores
\* A store of any of the three entry points, over two empty directories; its
\* configuration is read and its manager is called.
Stores ==
    {init_new_sector_store(STAGING, SEALED),
     init_new_test_sector_store(STAGING, SEALED),
     init_new_proof_test_sector_store(STAGING, SEALED)}

InitStore ==
    /\ store \in Stores
    /\ fs = [a \in {} |-> <<>>]
    /\ log = [a \in {} |-> <<>>]
    /\ issued = {}
    /\ last = NoCall
    /\ nops = 0
    /\ probe = NoProbe
    /\ mapped = NoMapped

\* store.config(): the four getters.
Config ==
    /\ last' = [NoCall EXCEPT
                  !.op = "config",
                  !.res = Ok([is_fake |-> is_fake(store.config),
                              simulate_delay_seconds |->
                                  simulate_delay_seconds(store.config),
                              max_unsealed_bytes_per_sector |->
                                  max_unsealed_bytes_per_sector(store.config),
                              sector_bytes |-> sector_bytes(store.config)])]
    /\ UNCHANGED <<store, fs, log, issued, nops, probe, mapped>>

WriteUnsealedFew == WriteUnsealedWith(DOMAIN fs, FewLens, DataSeeds, NoFault)

TruncateUnsealedFew == TruncateUnsealedWith(DOMAIN fs, FewSizes, NoFault)

NextStore ==
    \/ Config
    \/ NewSealedSectorAccess
    \/ NewStagingSectorAccess
    \/ NumUnsealedBytes
    \/ WriteUnsealedFew
    \/ TruncateUnsealedFew

SpecStore == InitStore /\ [][NextStore]_vars

\* -------------------------------------------------------------- the codec
\* The unpadded lengths probed: the first ones, and the last ones a sector holds.
ProbeLengths(config) ==
    LET max == max_unsealed_bytes_per_sector(config)
    IN  {u \in 0..MaxProbe : u <= max}
        \cup {max - k : k \in {j \in 0..MaxProbe : j <= max}}

\* A store, and a pair of unpadded lengths u1 <= u2 to put through the codec's
\* byte accounting.
InitCodec ==
    /\ store \in Stores
    /\ fs = [a \in {} |-> <<>>]
    /\ log = [a \in {} |-> <<>>]
    /\ issued = {}
    /\ last = NoCall
    /\ nops = 0
    /\ \E u1 \in ProbeLengths(store.config), gap \in 0..MaxGap :
           probe = [NoProbe EXCEPT !.u1 = u1, !.u2 = u1 + gap]
    /\ mapped = NoMapped

\* padded_bytes of both lengths, and unpadded_bytes of the first one's.
PadProbe ==
    /\ ~probe.done
    /\ probe' = [probe EXCEPT !.done = TRUE,
                              !.p1 = padded_bytes(probe.u1),
                              !.p2 = padded_bytes(probe.u2),
                              !.back = unpadded_bytes(padded_bytes(probe.u1))]
    /\ UNCHANGED <<store, fs, log, issued, last, nops, mapped>>

NextCodec == PadProbe

SpecCodec == InitCodec /\ [][NextCodec]_vars

\* ----------------------------------------------------- the status mapping
\* Result<T, SectorManagerErr>: Ok of a value, or one of the three errors
\* with its text.
Results ==
    {[r EXCEPT !.val = v] :
        r \in {Ok(0), UnclassifiedError, CallerError, ReceiverError},
        v \in 0..MaxPayload}

\* Two results of manager calls, to be mapped to their status codes.
InitStatus ==
    /\ store = init_new_proof_test_sector_store(STAGING, SEALED)
    /\ fs = [a \in {} |-> <<>>]
    /\ log = [a \in {} |-> <<>>]
    /\ issued = {}
    /\ last = NoCall
    /\ nops = 0
    /\ probe = NoProbe
    /\ \E r1 \in Results, r2 \in Results :
           mapped = [NoMapped EXCEPT !.r1 = r1, !.r2 = r2]

\* to_response_status of both results.
ToResponseStatus ==
    /\ ~mapped.done
    /\ mapped' = [mapped EXCEPT !.done = TRUE,
                                !.s1 = to_response_status(mapped.r1),
                                !.s2 = to_response_status(mapped.r2)]
    /\ UNCHANGED <<store, fs, log, issued, last, nops, probe>>

NextStatus == ToResponseStatus

SpecStatus == InitStatus /\ [][NextStatus]_vars

\* ----------------------------------------------------------------- claims
IsWrite(e) == e.op = "write"

IsTruncate(e) == e.op = "truncate"

\* The access was written once since its creation, and nothing else.
WrittenOnce(a) == a \in DOMAIN log /\ Len(log[a]) = 1 /\ IsWrite(log[a][1])

\* The access was written once since its creation and then truncated once.
WrittenThenTruncated(a) ==
    /\ a \in DOMAIN log
    /\ Len(log[a]) = 2
    /\ IsWrite(log[a][1])
    /\ IsTruncate(log[a][2])

\* C1: after a write of d to a fresh access, of either root,
\* num_unsealed_bytes succeeds and returns len(d).
C1_RoundTrip ==
    (last.op = "num_unsealed_bytes" /\ WrittenOnce(last.access))
        => last.res = Ok(log[last.access][1].n)

C1_Witness ==
    /\ last.op = "num_unsealed_bytes"
    /\ WrittenOnce(last.access)
    /\ log[last.access][1].n = 32
    /\ Len(fs[last.access]) = 33
    /\ last.res = Ok(32)

\* C2: truncate_unsealed(access, n) of an access that holds U >= n unpadded
\* bytes, also after an earlier truncation, leaves num_unsealed_bytes = n and
\* a file of pad(n) bytes: 33 for n = 32, n for n < 32.
C2_Truncation ==
    (/\ last.op = "truncate_unsealed"
     /\ last.res.kind = "Ok"
     /\ last.arg <= contract_bytes(last.lenBefore))
        => /\ num_unsealed_bytes(fs, last.access, "none") = Ok(last.arg)
           /\ Len(fs[last.access]) = padded_bytes(last.arg)
           /\ last.arg = 32 => Len(fs[last.access]) = 33
           /\ last.arg < 32 => Len(fs[last.access]) = last.arg

C2_Witness ==
    /\ last.op = "truncate_unsealed"
    /\ last.res.kind = "Ok"
    /\ last.arg = 31
    /\ last.lenBefore = 33
    /\ Len(log[last.access]) = 3
    /\ log[last.access][1].n = 128
    /\ log[last.access][2] = [op |-> "truncate", n |-> 32, seed |-> 0]
    /\ Len(fs[last.access]) = 31

\* The data of the one write of an access that was written once.
Written(a) == DataOf(log[a][1].n, log[a][1].seed)

\* C3 as stated: after a write of d to a fresh access and a truncation to
\* n <= len(d), n not a multiple of the 32 bytes of an element, the first n
\* bytes of the file are d[0..n].
C3_RawPrefix ==
    \A a \in DOMAIN fs :
        (/\ WrittenThenTruncated(a)
         /\ log[a][2].n <= log[a][1].n
         /\ log[a][2].n % 32 # 0)
            => /\ Len(fs[a]) >= log[a][2].n
               /\ SubSeq(fs[a], 1, log[a][2].n) = SubSeq(Written(a), 1, log[a][2].n)

\* C3 amended: after a write of d to a fresh access and a truncation to
\* n <= len(d), the file is the first pad(n) bytes of the file as written, no
\* byte of them altered, and unpadding it gives d[0..n]; the file itself is
\* d[0..n] when n <= 31, inside the first element.
C3_TruncationKeepsContent ==
    \A a \in DOMAIN fs :
        (WrittenThenTruncated(a) /\ log[a][2].n <= log[a][1].n)
            => LET n == log[a][2].n
                   written == write_padded(Written(a), <<>>, "none").file
               IN  /\ fs[a] = SubSeq(written, 1, padded_bytes(n))
                   /\ UnpaddedContent(fs[a], n) = SubSeq(Written(a), 1, n)
                   /\ n <= 31 => fs[a] = SubSeq(Written(a), 1, n)

C3_Witness ==
    \E a \in DOMAIN fs :
        /\ WrittenThenTruncated(a)
        /\ log[a][1].n = 128
        /\ log[a][2].n = 33
        /\ Len(fs[a]) = 34
        /\ fs[a][33] # Written(a)[33]
        /\ UnpaddedContent(fs[a], 33) = SubSeq(Written(a), 1, 33)

\* The bytes the file of the last call grew by.
Growth == Len(fs[last.access]) - last.lenBefore

C5_FreshWrite ==
    /\ expand_bytes(500) = 504
    /\ (last.op = "write_unsealed" /\ WrittenOnce(last.access))
           => /\ last.res = Ok(last.arg)
              /\ Len(fs[last.access]) = expand_bytes(last.arg)

C5_Witness ==
    /\ last.op = "write_unsealed"
    /\ WrittenOnce(last.access)
    /\ last.res = Ok(128)
    /\ Len(fs[last.access]) = 129

IsAllocation(call) ==
    call.op \in {"new_sealed_sector_access", "new_staging_sector_access"}

\* C6: every successful call of the allocator returns a handle whose file
\* exists and is empty, and that no earlier call returned.
C6_UniqueHandles ==
    (IsAllocation(last) /\ last.res.kind = "Ok")
        => /\ last.res.val \in DOMAIN fs
           /\ fs[last.res.val] = <<>>
           /\ last.fresh

\* What the file system answered in the last call: whether the open
\* succeeded, and whether the step after it failed.
Opened(call) == call.exists /\ call.fault # "open"

StepFailed(call) == call.fault \in {"codec", "write", "set_len"}

\* C7: num_unsealed_bytes, write_unsealed and truncate_unsealed return
\* CallerError exactly when the file cannot be opened, ReceiverError exactly
\* when it was opened and the codec's step or the length set failed, and Ok
\* exactly when nothing failed.
C7_ErrorClassification ==
    last.op \in {"num_unsealed_bytes", "write_unsealed", "truncate_unsealed"}
        => /\ last.res.kind = "CallerError" <=> ~Opened(last)
           /\ last.res.kind = "ReceiverError" <=> (Opened(last) /\ StepFailed(last))
           /\ last.res.kind = "Ok" <=> (Opened(last) /\ ~StepFailed(last))

C7_Witness ==
    /\ last.op = "truncate_unsealed"
    /\ last.exists
    /\ last.fault = "set_len"
    /\ last.res = ReceiverError

\* C8: no access holds more unpadded bytes than the store's configuration
\* allows for a sector.
C8_Capacity ==
    \A a \in DOMAIN fs :
        num_unsealed_bytes(fs, a, "none").val
            <= max_unsealed_bytes_per_sector(store.config)

\* The table of the three profiles.
ProfileTable ==
    /\ store = new_real_sector_store(SEALED, STAGING)
        => /\ ~last.res.val.is_fake
           /\ last.res.val.simulate_delay_seconds = None
           /\ last.res.val.sector_bytes = REAL_SECTOR_SIZE
           /\ REAL_SECTOR_SIZE = 128
    /\ store = new_fast_fake_sector_store(SEALED, STAGING)
        => /\ last.res.val.is_fake
           /\ last.res.val.simulate_delay_seconds = Some(10)
           /\ last.res.val.sector_bytes = 1024
    /\ store = new_slow_fake_sector_store(SEALED, STAGING)
        => /\ last.res.val.is_fake
           /\ last.res.val.simulate_delay_seconds = Some(14400)
           /\ last.res.val.sector_bytes = 2^30

C10_PadUnpad ==
    probe.done
        => /\ probe.back = probe.u1
           /\ probe.p1 <= probe.p2

C10_Witness ==
    /\ probe.done
    /\ probe.u1 = 63
    /\ probe.p1 = 64
    /\ probe.u2 = 64
    /\ probe.p2 = 65
    /\ probe.back = 63


\* C11: the status of a result is fixed by its kind alone: Ok gives
\* SBNoError (0), UnclassifiedError 1, CallerError 2, ReceiverError 3; every
\* result has a status, results of different kinds have different statuses,
\* and an error never has the status of no error.
StatusTable ==
    [Ok |-> 0, UnclassifiedError |-> 1, CallerError |-> 2, ReceiverError |-> 3]

C11_StatusMapping ==
    mapped.done
        => /\ mapped.s1 = StatusTable[mapped.r1.kind]
           /\ mapped.s2 = StatusTable[mapped.r2.kind]
           /\ mapped.s1 \in SBResponseStatus
           /\ (mapped.r1.kind = mapped.r2.kind) <=> (mapped.s1 = mapped.s2)
           /\ (mapped.r1.kind # "Ok") => (mapped.s1 # SBNoError)

C11_Witness ==
    /\ mapped.done
    /\ mapped.r1.kind = "ReceiverError"
    /\ mapped.r2.kind = "CallerError"
    /\ mapped.r1.val # mapped.r2.val
    /\ mapped.s1 = 3
    /\ mapped.s2 = 2


\* C12: a call made with one access handle, or the creation of an access,
\* leaves the file of every other access that exists as it was: it is still
\* there, with the same bytes.
C12_Independence ==
    [][\A b \in DOMAIN fs :
          (b # last'.access) => (b \in DOMAIN fs' /\ fs'[b] = fs[b])]_vars

C12_Witness ==
    /\ last.op = "write_unsealed"
    /\ last.res = Ok(1)
    /\ \E b \in DOMAIN fs : b # last.access /\ Len(fs[b]) = 33


\* C13: two writes d1, d2 to a fresh access leave the file a single write of
\* d1 \o d2 would leave (same length, same bytes), num_unsealed_bytes is
\* Len(d1) + Len(d2), and the file still holds d1 followed by d2, also when
\* d1 ended inside an element or inside a byte.
WrittenTwice(a) ==
    /\ a \in DOMAIN log
    /\ Len(log[a]) = 2
    /\ IsWrite(log[a][1])
    /\ IsWrite(log[a][2])

C13_WriteAppends ==
    \A a \in DOMAIN fs :
        WrittenTwice(a)
            => LET d1 == DataOf(log[a][1].n, log[a][1].seed)
                   d2 == DataOf(log[a][2].n, log[a][2].seed)
               IN  /\ fs[a] = write_padded(d1 \o d2, <<>>, "none").file
                   /\ num_unsealed_bytes(fs, a, "none") = Ok(Len(d1) + Len(d2))
                   /\ UnpaddedContent(fs[a], Len(d1) + Len(d2)) = d1 \o d2

C13_Witness ==
    \E a \in DOMAIN fs :
        /\ WrittenTwice(a)
        /\ log[a][1].n = 32
        /\ log[a][2].n = 32
        /\ Len(fs[a]) = 65
        /\ last.op = "write_unsealed"
        /\ last.access = a


IsError(res) == res.kind \in {"CallerError", "ReceiverError"}

\* C14 as stated: a call that returns CallerError or ReceiverError leaves
\* every file as it was, and creates none.
C14_UnchangedOnError ==
    [][IsError(last'.res) => fs' = fs]_vars

\* C14 amended: a call that returns an error creates and removes no file and
\* leaves every file as it was, but for a write_unsealed that returns
\* ReceiverError: the file it wrote to may hold a part of the padded data,
\* and is no shorter than it was.
C14_UnchangedButForFailedWrite ==
    [][IsError(last'.res)
          => /\ DOMAIN fs' = DOMAIN fs
             /\ \A b \in DOMAIN fs :
                    IF /\ last'.op = "write_unsealed"
                       /\ last'.res.kind = "ReceiverError"
                       /\ b = last'.access
                    THEN Len(fs'[b]) >= Len(fs[b])
                    ELSE fs'[b] = fs[b]]_vars

C14_Witness ==
    /\ last.op = "write_unsealed"
    /\ last.fault = "write"
    /\ last.res = ReceiverError
    /\ last.lenBefore = 1
    /\ Len(fs[last.access]) = 17


\* The unpadded bytes the access of the last call held before the call.
HeldBefore == contract_bytes(last.lenBefore)

\* C15 as stated: after truncate_unsealed(access, n), for any n, the file is
\* no longer than it was and num_unsealed_bytes is no larger than it was.
C15_NeverGrows ==
    last.op = "truncate_unsealed"
        => /\ Len(fs[last.access]) <= last.lenBefore
           /\ num_unsealed_bytes(fs, last.access, "none").val <= HeldBefore

\* C15 amended: truncate_unsealed(access, n) sets the length of the file to
\* the padded length of n and num_unsealed_bytes becomes n. For n at most the
\* U bytes held, neither is larger than before; for n > U the file grows, by
\* zero bytes.
C15_SetsPaddedLength ==
    (last.op = "truncate_unsealed" /\ last.res.kind = "Ok")
        => LET file == fs[last.access]
           IN  /\ Len(file) = padded_bytes(last.arg)
               /\ num_unsealed_bytes(fs, last.access, "none") = Ok(last.arg)
               /\ (last.arg <= HeldBefore) => (Len(file) <= last.lenBefore)
               /\ (last.arg > HeldBefore)
                      => /\ Len(file) > last.lenBefore
                         /\ \A j \in (last.lenBefore + 1)..Len(file) : file[j] = 0

C15_Witness ==
    /\ last.op = "truncate_unsealed"
    /\ last.res.kind = "Ok"
    /\ last.arg = 32
    /\ last.lenBefore = 1
    /\ Len(fs[last.access]) = 33

====
